---- MODULE Spec2Model ----
(***************************************************************************)
(* A model of the frame / square / stepping kernel of src/src/frame.rs.   *)
(* A Frame is a dense grid stored in a Vec, a Square is a read-only view  *)
(* anchored at one coordinate, next_frame derives the next generation.    *)
(* Vec indices are 0-based in the source and 1-based in the sequences of  *)
(* the model: data[i] of the source is data[i + 1] here.                  *)
(***************************************************************************)
EXTENDS Integers, Sequences, FiniteSets, TLC

VARIABLES frame, iter, yielded, chain, out

vars == <<frame, iter, yielded, chain, out>>

-----------------------------------------------------------------------------
(* Bounds of the model *)

\* frames are built with width and height in 1..MaxDim; coordinates handed to
\* get and get_mut range over 0..MaxDim and offsets handed to Square::get over
\* -MaxDim..MaxDim, so that both include values out of range
MaxDim == 3
\* a frame under test holds at most MaxLive non-default cells written by hand
MaxLive == 1
\* radii handed to within_ortholinear range over 0..MaxRadius
MaxRadius == 1
\* the blinker scenario writes at most GolLive live cells before stepping
GolLive == 3

(* Program constants *)

\* i32::default() / GOLState's default (Dead)
DefaultT == 0
\* the 4x4 board of the game_of_life test
GolSize == 4
\* the game_of_life test advances the board twice
GolSteps == 2

\* the element values written by callers: the default and default + 1 (Alive)
T == {DefaultT, DefaultT + 1}

-----------------------------------------------------------------------------
(* Outcomes of a call: a returned value or a panic *)

Ok(v) == [kind |-> "ok", val |-> v]
Panic == [kind |-> "panic", val |-> <<>>]

Abs(n) == IF n < 0 THEN -n ELSE n

-----------------------------------------------------------------------------
(* Frame *)

\* Frame::new: vec![T::default(); x * y]
FrameNew(x, y) ==
    [data |-> [i \in 1..(x * y) |-> DefaultT], width |-> x, height |-> y]

\* the linear offset used by get, get_mut and next_frame
Index(fr, x, y) == y * fr.height + x

\* Frame::get: &self.data[y * self.height + x]; Vec indexing panics out of range
FrameGet(fr, x, y) ==
    LET i == Index(fr, x, y)
    IN  IF i < Len(fr.data) THEN Ok(fr.data[i + 1]) ELSE Panic

\* *frame.get_mut(x, y) = v
FrameSet(fr, x, y, v) ==
    LET i == Index(fr, x, y)
    IN  IF i < Len(fr.data)
        THEN Ok([fr EXCEPT !.data = [fr.data EXCEPT ![i + 1] = v]])
        ELSE Panic

-----------------------------------------------------------------------------
(* Square *)

\* add_modulo without the negative-offset adjustment
add_modulo_nowrap(x, y, m) ==
    IF ~(Abs(y) < m) THEN Panic
    ELSE LET base == (x % m) + m
             delta == Abs(y)
         IN  Ok((base + delta) % m)

\* add_modulo without the assertion, normalising any offset
add_modulo_noassert(x, y, m) ==
    Ok((x + y) % m)

\* add_modulo(x: usize, y: isize, m: usize)
add_modulo(x, y, m) ==
    IF ~(Abs(y) < m) THEN Panic
    ELSE LET base == (x % m) + m
             delta == IF y < 0 THEN y + m ELSE y
         IN  Ok((base + delta) % m)

\* Square::get(i, j) of the square anchored at pt in fr
SquareGet(fr, pt, i, j) ==
    LET ax == add_modulo(pt[1], i, fr.width)
    IN  IF ax.kind = "panic" THEN Panic
        ELSE LET ay == add_modulo(pt[2], j, fr.height)
             IN  IF ay.kind = "panic" THEN Panic
                 ELSE FrameGet(fr, ax.val, ay.val)

\* the filter of within_ortholinear with && in place of ||
KeepOffsetBoth(i, j) == i # 0 /\ j # 0

\* the filter of within_ortholinear: if i != 0 || j != 0
KeepOffset(i, j) == i # 0 \/ j # 0

\* the (i, j) pairs of the nested loops for i in -r..r+1 { for j in -r..r+1 },
\* in the order the loops visit them
ScanOffsets(r) ==
    IF r < 0 THEN <<>>
    ELSE LET n == 2 * r + 1
         IN  [k \in 1..(n * n) |-> <<((k - 1) \div n) - r, ((k - 1) % n) - r>>]

RECURSIVE OrthoLoop(_, _, _, _, _)
\* the loop body: push self.get(i, j).clone() for the kept offsets
OrthoLoop(fr, pt, offs, k, nodes) ==
    IF k > Len(offs) THEN Ok(nodes)
    ELSE LET i == offs[k][1]
             j == offs[k][2]
         IN  IF KeepOffset(i, j)
             THEN LET g == SquareGet(fr, pt, i, j)
                  IN  IF g.kind = "panic" THEN Panic
                      ELSE OrthoLoop(fr, pt, offs, k + 1, Append(nodes, g.val))
             ELSE OrthoLoop(fr, pt, offs, k + 1, nodes)

\* Square::within_ortholinear(r)
WithinOrtholinear(fr, pt, r) == OrthoLoop(fr, pt, ScanOffsets(r), 1, <<>>)

-----------------------------------------------------------------------------
(* FrameIterator *)

\* FrameIterator::next with next_index = idx
IterNext(fr, idx) ==
    LET x == idx[1]
        y == idx[2]
    IN  IF y < fr.width
        THEN LET val == FrameGet(fr, x, y)
             IN  IF val.kind = "panic" THEN [kind |-> "panic", next |-> idx]
                 ELSE [kind |-> "some", item |-> <<x, y, val.val>>,
                       next |-> IF x + 1 < fr.width THEN <<x + 1, y>>
                                ELSE <<0, y + 1>>]
        ELSE [kind |-> "none", next |-> idx]

RECURSIVE IterCoords(_, _, _)
\* the coordinates enumerate_squares yields on fr before it ends or panics
IterCoords(fr, idx, acc) ==
    LET it == IterNext(fr, idx)
    IN  IF it.kind = "some"
        THEN IterCoords(fr, it.next, acc \cup {<<it.item[1], it.item[2]>>})
        ELSE acc

\* the anchors of the Squares next_frame builds on fr
Anchors(fr) == IterCoords(fr, <<0, 0>>, {})

-----------------------------------------------------------------------------
(* Transition functions handed to next_frame *)

\* |sq| { sq.get(0, 0) + 1 }
StepSame(fr, pt) ==
    LET g == SquareGet(fr, pt, 0, 0)
    IN  IF g.kind = "panic" THEN Panic ELSE Ok(g.val + 1)

\* "neighbor value + 1": |sq| { sq.get(-1, 0) + 1 }
StepNeighbor(fr, pt) ==
    LET g == SquareGet(fr, pt, -1, 0)
    IN  IF g.kind = "panic" THEN Panic ELSE Ok(g.val + 1)

\* the number of elements of the sequence s equal to v
CountEq(s, v) == Cardinality({k \in 1..Len(s) : s[k] = v})

\* rules::game_of_life: alive with 2 or 3 live Moore neighbours, born with 3
game_of_life(fr, pt) ==
    LET ns == WithinOrtholinear(fr, pt, 1)
        me == SquareGet(fr, pt, 0, 0)
    IN  IF ns.kind = "panic" \/ me.kind = "panic" THEN Panic
        ELSE LET n == CountEq(ns.val, DefaultT + 1)
             IN  IF me.val = DefaultT + 1
                 THEN Ok(IF n = 2 \/ n = 3 THEN DefaultT + 1 ELSE DefaultT)
                 ELSE Ok(IF n = 3 THEN DefaultT + 1 ELSE DefaultT)

Rules == {"same", "neighbor", "game_of_life"}

\* step(square) for the named transition function
ApplyStep(rule, fr, pt) ==
    CASE rule = "same" -> StepSame(fr, pt)
      [] rule = "neighbor" -> StepNeighbor(fr, pt)
      [] rule = "game_of_life" -> game_of_life(fr, pt)

-----------------------------------------------------------------------------
(* Frame::next_frame *)

\* the store of next_frame writing through to the frame it reads (no clone)
StoreCellInPlace(st, i, v) ==
    [self |-> [st.self EXCEPT !.data = [st.self.data EXCEPT ![i + 1] = v]],
     data |-> [st.data EXCEPT ![i + 1] = v]]

\* data[i] = v on the cloned buffer; self is borrowed immutably
StoreCell(st, i, v) ==
    [self |-> st.self, data |-> [st.data EXCEPT ![i + 1] = v]]

RECURSIVE NextFrameLoop(_, _, _)
\* for (x, y, _) in self.enumerate_squares() { data[height * y + x] = step(..) }
NextFrameLoop(st, idx, rule) ==
    LET it == IterNext(st.self, idx)
    IN  IF it.kind = "panic" THEN [self |-> st.self, res |-> Panic]
        ELSE IF it.kind = "none"
        THEN [self |-> st.self,
              res |-> Ok([data |-> st.data, width |-> st.self.width,
                          height |-> st.self.height])]
        ELSE LET x == it.item[1]
                 y == it.item[2]
                 r == ApplyStep(rule, st.self, <<x, y>>)
                 i == st.self.height * y + x
             IN  IF r.kind = "panic" \/ ~(i < Len(st.data))
                 THEN [self |-> st.self, res |-> Panic]
                 ELSE NextFrameLoop(StoreCell(st, i, r.val), it.next, rule)

\* next_frame(&self, step): let mut data = self.data.clone(); loop; Frame {..}
NextFrame(fr, rule) ==
    NextFrameLoop([self |-> fr, data |-> fr.data], <<0, 0>>, rule)

-----------------------------------------------------------------------------
(* The state machine: one caller driving a frame *)

\* the number of cells of fr that differ from the default
Live(fr) == Cardinality({k \in 1..Len(fr.data) : fr.data[k] # DefaultT})

NoIter == <<>>

Call(op, pt, off, v, rule, pre, res) ==
    [op |-> op, pt |-> pt, off |-> off, v |-> v, rule |-> rule,
     pre |-> pre, res |-> res]

\* the caller is between two calls, holding no result of the last one; a panic
\* unwinds the caller, so nothing runs after it
Running == out.op \in {"new", "idle"}

Init ==
    /\ \E w \in 1..MaxDim, h \in 1..MaxDim :
          /\ frame = FrameNew(w, h)
          /\ out = Call("new", <<w, h>>, <<0, 0>>, DefaultT, "", FrameNew(w, h),
                        Ok(<<>>))
    /\ iter = NoIter
    /\ yielded = <<>>
    /\ chain = <<>>

\* frame.get(x, y), any coordinates
Get ==
    /\ Running /\ iter = NoIter
    /\ \E x \in 0..MaxDim, y \in 0..MaxDim :
          out' = Call("get", <<x, y>>, <<0, 0>>, DefaultT, "", frame,
                      FrameGet(frame, x, y))
    /\ UNCHANGED <<frame, iter, yielded, chain>>

\* *frame.get_mut(x, y) = v, any coordinates
Set ==
    /\ Running /\ iter = NoIter
    /\ \E x \in 0..MaxDim, y \in 0..MaxDim, v \in T :
          LET r == FrameSet(frame, x, y, v)
          IN  /\ r.kind = "ok" => Live(r.val) <= MaxLive
              /\ frame' = IF r.kind = "ok" THEN r.val ELSE frame
              /\ out' = Call("set", <<x, y>>, <<0, 0>>, v, "", frame,
                             IF r.kind = "ok" THEN Ok(<<>>) ELSE Panic)
    /\ UNCHANGED <<iter, yielded, chain>>

\* a transition function calling sq.get(i, j) on a square of the frame
SquareGetCall ==
    /\ Running /\ iter = NoIter
    /\ \E pt \in Anchors(frame), i \in -MaxDim..MaxDim, j \in -MaxDim..MaxDim :
          out' = Call("square_get", pt, <<i, j>>, DefaultT, "", frame,
                      SquareGet(frame, pt, i, j))
    /\ UNCHANGED <<frame, iter, yielded, chain>>

\* a transition function calling sq.within_ortholinear(r)
OrthoCall ==
    /\ Running /\ iter = NoIter
    /\ \E pt \in Anchors(frame), r \in 0..MaxRadius :
          out' = Call("within_ortholinear", pt, <<0, 0>>, r, "", frame,
                      WithinOrtholinear(frame, pt, r))
    /\ UNCHANGED <<frame, iter, yielded, chain>>

\* frame.enumerate_squares()
EnumerateSquares ==
    /\ Running /\ iter = NoIter
    /\ iter' = <<0, 0>>
    /\ yielded' = <<>>
    /\ out' = Call("enumerate_squares", <<0, 0>>, <<0, 0>>, DefaultT, "", frame,
                   Ok(<<>>))
    /\ UNCHANGED <<frame, chain>>

\* iterator.next(); the frame stays borrowed while the iterator lives
IterNextCall ==
    /\ Running /\ iter # NoIter
    /\ LET it == IterNext(frame, iter)
       IN  /\ iter' = it.next
           /\ yielded' = IF it.kind = "some" THEN Append(yielded, it.item)
                         ELSE yielded
           /\ out' = Call("next", iter, <<0, 0>>, DefaultT, "", frame,
                          [kind |-> it.kind, val |-> <<>>])
    /\ UNCHANGED <<frame, chain>>

\* the iterator goes out of scope
IterDrop ==
    /\ Running /\ iter # NoIter
    /\ iter' = NoIter
    /\ yielded' = <<>>
    /\ out' = Call("drop", <<0, 0>>, <<0, 0>>, DefaultT, "", frame, Ok(<<>>))
    /\ UNCHANGED <<frame, chain>>

\* frame.next_frame(step)
Advance ==
    /\ Running /\ iter = NoIter
    /\ \E rule \in Rules :
          \E r \in {NextFrame(frame, rule)} :
              /\ frame' = r.self
              /\ out' = Call("next_frame", <<0, 0>>, <<0, 0>>, DefaultT, rule,
                             frame, r.res)
    /\ UNCHANGED <<iter, yielded, chain>>

\* the caller is done with the value the last call returned
Return ==
    /\ out.op \notin {"new", "idle"}
    /\ out.res.kind # "panic"
    /\ out' = Call("idle", <<0, 0>>, <<0, 0>>, DefaultT, "", frame, Ok(<<>>))
    /\ UNCHANGED <<frame, iter, yielded, chain>>

Next ==
    \/ Return
    \/ Get
    \/ Set
    \/ SquareGetCall
    \/ OrthoCall
    \/ EnumerateSquares
    \/ IterNextCall
    \/ IterDrop
    \/ Advance

Spec == Init /\ [][Next]_vars

-----------------------------------------------------------------------------
(* The blinker scenario of the game_of_life test: a 4x4 board, cells set   *)
(* alive by hand, then next_frame(rules::game_of_life) on the board and on *)
(* the frame it returned.  chain holds the frames returned so far.         *)

InitGol ==
    /\ frame = FrameNew(GolSize, GolSize)
    /\ out = Call("new", <<GolSize, GolSize>>, <<0, 0>>, DefaultT, "",
                  FrameNew(GolSize, GolSize), Ok(<<>>))
    /\ iter = NoIter
    /\ yielded = <<>>
    /\ chain = <<>>

\* frame1.set(x, y, Alive)
GolSet ==
    /\ Running /\ chain = <<>>
    /\ \E x \in 0..(GolSize - 1), y \in 0..(GolSize - 1) :
          LET r == FrameSet(frame, x, y, DefaultT + 1)
          IN  /\ r.kind = "ok" => Live(r.val) <= GolLive
              /\ frame' = IF r.kind = "ok" THEN r.val ELSE frame
              /\ out' = Call("set", <<x, y>>, <<0, 0>>, DefaultT + 1, "", frame,
                             IF r.kind = "ok" THEN Ok(<<>>) ELSE Panic)
    /\ UNCHANGED <<iter, yielded, chain>>

\* frame2 = frame1.next_frame(game_of_life); frame3 = frame2.next_frame(..)
GolAdvance ==
    /\ Running /\ Len(chain) < GolSteps
    /\ \E self \in {IF chain = <<>> THEN frame ELSE chain[Len(chain)]} :
       \E r \in {NextFrame(self, "game_of_life")} :
          LET kept == IF chain = <<>> THEN chain
                      ELSE [chain EXCEPT ![Len(chain)] = r.self]
          IN  /\ frame' = IF chain = <<>> THEN r.self ELSE frame
              /\ chain' = IF r.res.kind = "ok" THEN Append(kept, r.res.val)
                          ELSE kept
              /\ out' = Call("next_frame", <<0, 0>>, <<0, 0>>, DefaultT,
                             "game_of_life", self, r.res)
    /\ UNCHANGED <<iter, yielded>>

NextGol ==
    \/ Return
    \/ GolSet
    \/ GolAdvance

SpecGol == InitGol /\ [][NextGol]_vars

-----------------------------------------------------------------------------
(* Properties *)

\* the coordinates (x, y) with 0 <= x < width and 0 <= y < height
Valid(fr) == (0..(fr.width - 1)) \X (0..(fr.height - 1))

\* the mathematical residue of a modulo m, in 0..m-1 also for negative a
Mod(a, m) == ((a % m) + m) % m

\* C1: next_frame(F) returns a frame whose cell at every valid (x, y) equals F
\* applied to the Square anchored at (x, y) on the pre-advance frame (for every
\* F that itself returns a value on each of those squares).
C1_NextFrameAppliesStep ==
    (/\ out.op = "next_frame"
     /\ \A pt \in Valid(out.pre) : ApplyStep(out.rule, out.pre, pt).kind = "ok")
    => /\ out.res.kind = "ok"
       /\ \A pt \in Valid(out.pre) :
             FrameGet(out.res.val, pt[1], pt[2]) = ApplyStep(out.rule, out.pre, pt)

\* C2: writing v at a valid (x, y) through get_mut and then reading (x, y) gives
\* v, and every other valid coordinate reads as it did before the write.
C2_SetThenGet ==
    (out.op = "set" /\ out.pt \in Valid(out.pre))
    => /\ out.res.kind = "ok"
       /\ FrameGet(frame, out.pt[1], out.pt[2]) = Ok(out.v)
       /\ \A q \in Valid(out.pre) \ {out.pt} :
             FrameGet(frame, q[1], q[2]) = FrameGet(out.pre, q[1], q[2])

\* C3: get and get_mut with x >= width or y >= height always panic.
C3_OutOfBoundsPanics ==
    (/\ out.op \in {"get", "set"}
     /\ (out.pt[1] >= out.pre.width \/ out.pt[2] >= out.pre.height))
    => out.res.kind = "panic"

\* the triples of a frame in row-major order from (0, 0), x advancing before y
RowMajor(fr) ==
    [k \in 1..(fr.width * fr.height) |->
        <<(k - 1) % fr.width, (k - 1) \div fr.width>>]

\* C4: the iterator of enumerate_squares never panics, yields the coordinates of
\* the frame in row-major order, each with the value get returns there, and ends
\* after exactly width * height triples.
C4_EnumerationCoversFrame ==
    (out.op = "next")
    => /\ out.res.kind # "panic"
       /\ Len(yielded) <= frame.width * frame.height
       /\ \A k \in 1..Len(yielded) :
             /\ <<yielded[k][1], yielded[k][2]>> = RowMajor(frame)[k]
             /\ Ok(yielded[k][3]) = FrameGet(frame, yielded[k][1], yielded[k][2])
       /\ out.res.kind = "none" => Len(yielded) = frame.width * frame.height

\* C5: Square.get(dx, dy) with |dx| < W and |dy| < H behaves as
\* Frame.get((x + dx) mod W, (y + dy) mod H), the residues taken in [0, extent);
\* at x = 0, get(-1, 0) reads (W-1, y), and at y = 0, get(0, -1) reads (x, H-1).
C5_SquareGetWraps ==
    (/\ out.op = "square_get"
     /\ Abs(out.off[1]) < out.pre.width
     /\ Abs(out.off[2]) < out.pre.height)
    => /\ out.res = FrameGet(out.pre, Mod(out.pt[1] + out.off[1], out.pre.width),
                             Mod(out.pt[2] + out.off[2], out.pre.height))
       /\ (out.pt \in Valid(out.pre) /\ out.pt[1] = 0 /\ out.off = <<-1, 0>>)
          => out.res = FrameGet(out.pre, out.pre.width - 1, out.pt[2])
       /\ (out.pt \in Valid(out.pre) /\ out.pt[2] = 0 /\ out.off = <<0, -1>>)
          => out.res = FrameGet(out.pre, out.pt[1], out.pre.height - 1)

\* a square at the left edge read the live cell of the right edge through get(-1, 0)
C5_Witness ==
    /\ out.op = "square_get"
    /\ out.pre.width = MaxDim
    /\ out.pt[1] = 0
    /\ out.off = <<-1, 0>>
    /\ out.res = Ok(DefaultT + 1)
    /\ FrameGet(out.pre, out.pre.width - 1, out.pt[2]) = Ok(DefaultT + 1)

\* the frame fr reads alive exactly at the coordinates of cells
OnlyLive(fr, cells) ==
    \A pt \in Valid(fr) :
        FrameGet(fr, pt[1], pt[2]) =
            Ok(IF pt \in cells THEN DefaultT + 1 ELSE DefaultT)

IsBlinker(fr) ==
    /\ fr.width = GolSize /\ fr.height = GolSize
    /\ OnlyLive(fr, {<<1, 0>>, <<1, 1>>, <<1, 2>>})

\* C6: from the 4x4 board alive exactly at (1,0), (1,1), (1,2), the first
\* game-of-life step gives the board alive exactly at (0,1), (1,1), (2,1) and
\* the second step gives a frame equal to the original.
C6_BlinkerOscillates ==
    IsBlinker(frame)
    => /\ Len(chain) >= 1 => /\ chain[1].width = GolSize
                             /\ chain[1].height = GolSize
                             /\ OnlyLive(chain[1], {<<0, 1>>, <<1, 1>>, <<2, 1>>})
       /\ Len(chain) >= 2 => chain[2] = frame

\* the blinker board has been advanced twice
C6_Witness ==
    /\ IsBlinker(frame)
    /\ Len(chain) = GolSteps
    /\ out.op = "next_frame"
    /\ out.res.kind = "ok"

\* C7: next_frame leaves the frame it is called on intact: width, height and
\* every cell are as before the call, whether it returns or panics.
C7_NextFrameKeepsOriginal ==
    (out.op = "next_frame") => frame = out.pre

\* next_frame returned a frame that differs from the one it was called on
C7_Witness ==
    /\ out.op = "next_frame"
    /\ out.res.kind = "ok"
    /\ out.res.val # out.pre
    /\ Live(out.pre) > 0
    /\ frame = out.pre

\* C8: Frame::new(w, h) has width w and height h, and get returns the default
\* value at every valid coordinate of it.
C8_FreshFrameDefault ==
    /\ (out.op = "new")
       => /\ frame.width = out.pt[1]
          /\ frame.height = out.pt[2]
    /\ (/\ out.op = "get"
        /\ out.pre = FrameNew(out.pre.width, out.pre.height)
        /\ out.pt \in Valid(out.pre))
       => out.res = Ok(DefaultT)

\* the fixed scan of the offsets of radius 1, dx slowest and dy fastest
Scan8 ==
    << <<-1, -1>>, <<-1, 0>>, <<-1, 1>>, <<0, -1>>,
       <<0, 1>>, <<1, -1>>, <<1, 0>>, <<1, 1>> >>

\* C9: within_ortholinear(1) in a frame of width >= 2 and height >= 2 returns
\* exactly 8 values, the k-th being Square.get at the k-th offset of the scan.
C9_OrthoEightInOrder ==
    (/\ out.op = "within_ortholinear"
     /\ out.v = 1
     /\ out.pre.width >= 2
     /\ out.pre.height >= 2)
    => /\ out.res.kind = "ok"
       /\ Len(out.res.val) = Len(Scan8)
       /\ \A k \in 1..Len(Scan8) :
             Ok(out.res.val[k]) =
                 SquareGet(out.pre, out.pt, Scan8[k][1], Scan8[k][2])

\* C10: Square.get(dx, dy) with |dx| >= width or |dy| >= height always panics.
C10_OversizedOffsetPanics ==
    (/\ out.op = "square_get"
     /\ (Abs(out.off[1]) >= out.pre.width \/ Abs(out.off[2]) >= out.pre.height))
    => out.res.kind = "panic"

\* an offset within the width but as large as the height was refused
C10_Witness ==
    /\ out.op = "square_get"
    /\ out.pre.width = MaxDim
    /\ out.pre.height = 2
    /\ out.off = <<1, -2>>
    /\ out.res.kind = "panic"

====
